---- MODULE Spec2Model ----
(***************************************************************************)
(* Model of the userscript show-top-team-requirements-table.js: the three  *)
(* cached fetch operations, the entry point that guards on team ownership, *)
(* retrieves the data, computes the weekly and season requirements, waits  *)
(* for the page anchor and inserts the widget, and the click listeners of  *)
(* the widget's Weekly and Season buttons.                                 *)
(*                                                                         *)
(* JavaScript values are tagged records, so that any two of them can be    *)
(* compared: Undefined, Null, NaN, Num(n) (a rational num/den, den > 0),   *)
(* Str(s) (a sequence of character tokens), Arr(s); an object is a record  *)
(* of its own properties.  A string held in localStorage is modelled by    *)
(* what JSON.parse makes of it: Text(v) is a JSON text denoting v, Garbage *)
(* is a text that is not JSON.  The clock counts milliseconds from the     *)
(* first page load and never runs backwards; it advances while a request   *)
(* is under way and between page loads.                                    *)
(***************************************************************************)
EXTENDS Integers, Sequences, FiniteSets, TLC

(***************************************************************************)
(* Bounds of the model.                                                    *)
(***************************************************************************)
MaxTicks == 1
MaxLoads == 2
MaxMembers == 4
MaxClicks == 2

(***************************************************************************)
(* JavaScript values.                                                      *)
(***************************************************************************)
Undefined == [undefined |-> TRUE]
Null == [null |-> TRUE]
NaN == [nan |-> TRUE]
Num(n) == [num |-> n, den |-> 1]
Str(s) == [str |-> s]
Arr(s) == [arr |-> s]
IsNum(v) == "num" \in DOMAIN v
IsArr(v) == "arr" \in DOMAIN v
IsNullish(v) == v = Undefined \/ v = Null

SyntaxError == [thrown |-> "SyntaxError"]
TypeError == [thrown |-> "TypeError"]
IsThrown(v) == "thrown" \in DOMAIN v

\* o.k for an object o that is neither undefined nor null.
Get(o, k) == IF k \in DOMAIN o THEN o[k] ELSE Undefined

\* a / b on numbers; a non-number operand (undefined) gives NaN.  Divisors
\* are non-zero in every input of the model.
JSDiv(a, b) ==
  IF ~IsNum(a) \/ ~IsNum(b) THEN NaN
  ELSE LET n == a.num * b.den
           d == a.den * b.num
       IN  IF d > 0 THEN [num |-> n, den |-> d] ELSE [num |-> -n, den |-> -d]

\* a - b on numbers; a non-number operand (undefined) gives NaN.
JSSub(a, b) ==
  IF ~IsNum(a) \/ ~IsNum(b) THEN NaN
  ELSE [num |-> a.num * b.den - b.num * a.den, den |-> a.den * b.den]

\* Math.ceil: the least integer not below a; NaN stays NaN.
MathCeil(a) ==
  IF ~IsNum(a) THEN NaN ELSE Num(-((-a.num) \div a.den))

(***************************************************************************)
(* Strings in localStorage, JSON.parse and JSON.stringify.                 *)
(***************************************************************************)
Text(v) == [json |-> v]
Garbage == [garbage |-> TRUE]

\* JSON.parse(s): null is converted to the text "null"; a text that is not
\* JSON throws a SyntaxError.
JSONParse(s) ==
  IF s = Null THEN Null
  ELSE IF "json" \in DOMAIN s THEN s.json
  ELSE SyntaxError

\* JSON.stringify(o) of an object: properties whose value is undefined are
\* left out of the text.
JSONStringify(o) ==
  Text([k \in {f \in DOMAIN o : o[f] # Undefined} |-> o[k]])

(***************************************************************************)
(* String.prototype.split on a sequence of character tokens.               *)
(***************************************************************************)
RECURSIVE split(_, _)
split(s, sep) ==
  IF \A i \in 1..Len(s) : s[i] # sep THEN <<s>>
  ELSE LET i == CHOOSE j \in 1..Len(s) :
                  s[j] = sep /\ \A l \in 1..(j - 1) : s[l] # sep
       IN  <<SubSeq(s, 1, i - 1)>> \o split(SubSeq(s, i + 1, Len(s)), sep)

\* a[i] of a JavaScript array (0-based); undefined out of range.
At(a, i) == IF i + 1 \in 1..Len(a) THEN a[i + 1] ELSE Undefined

(***************************************************************************)
(* Program constants.                                                      *)
(***************************************************************************)
\* The freshness window, 20 * 60 * 1000 ms.
TTL == 20 * 60 * 1000

Ops == {"fetchTeamStats", "getWeeklyLeaderBoardInfoStats",
        "getSeasonLeaderBoardInfoStats"}

\* The localStorage key of each fetch operation.
teamStatsKey == "teamStats"
weeklyKeyCopied == "seasonLeaderboardInfo"
weeklyKey == "weeklyLeaderboardInfo"
seasonKey == "seasonLeaderboardInfo"
sessionKey == "persist:nt"
CacheKeys == {"teamStats", "weeklyLeaderboardInfo", "seasonLeaderboardInfo"}
Keys == CacheKeys \cup {sessionKey}

\* The tracked milestones: property name and 0-based leaderboard index.
Milestones == <<[key |-> "top1", index |-> 0], [key |-> "top3", index |-> 2],
                [key |-> "top10", index |-> 9], [key |-> "top50", index |-> 49],
                [key |-> "top100", index |-> 99]>>
MilestoneKeys == {Milestones[i].key : i \in 1..Len(Milestones)}
IndexOf(k) ==
  LET i == CHOOSE j \in 1..Len(Milestones) : Milestones[j].key = k
  IN  Milestones[i].index

(***************************************************************************)
(* Inputs of the model: page addresses, the session state of the host      *)
(* page, and the responses of the API.                                     *)
(***************************************************************************)
Hrefs ==
  { <<"https:", "/", "/", "www.nitrotype.com", "/", "team", "/", "TAGA">>,
    <<"https:", "/", "/", "www.nitrotype.com", "/", "team", "/", "TAGB", "/">>,
    <<"https:", "/", "/", "www.nitrotype.com", "/", "team", "/">> }

\* persist:nt as the host page writes it: a JSON object whose user property
\* is itself a JSON text.
SessionOf(tag) == Text([user |-> Text([tag |-> Str(<<tag>>)])])
Sessions == {Null, SessionOf("TAGA")}

\* A team profile as the API returns it.
TeamBody(members, played) ==
  [results |->
     [info |-> [members |-> Num(members)],
      stats |-> Arr(<<[board |-> Str(<<"daily">>), played |-> Num(7)],
                      [board |-> Str(<<"season">>), played |-> Num(played)]>>)]]
TeamBodies == {TeamBody(10, 3025), TeamBody(25, 3000)}

\* A leaderboard of 100 scores: the entry of rank i + 1 has played
\* top - step * i races.
Scores(top, step) ==
  Arr([i \in 1..100 |->
         [played |-> Num(top - step * (i - 1)),
          points |-> Num(50000 - 100 * (i - 1)),
          tag |-> Str(<<"T">>)]])
LeaderboardBody(top, step) == [results |-> [scores |-> Scores(top, step)]]
WeeklyBodies == {LeaderboardBody(700, 3)}
SeasonBodies == {LeaderboardBody(5000, 20)}

\* What fetch() settles with: a response, or a rejection (network error).
\* body is the text response.json() parses.
NetworkError == [thrown |-> "NetworkError"]
Responses(bodies) ==
  {[ok |-> TRUE, status |-> 200, body |-> Text(b)] : b \in bodies}
  \cup {[ok |-> TRUE, status |-> 200, body |-> Garbage],
        [ok |-> FALSE, status |-> 500, body |-> Garbage],
        NetworkError}

\* The clock advances by one of TickSteps while a request is under way, and
\* by one of Waits between two page loads: one millisecond short of the
\* freshness window, or the window exactly.
TickSteps == {1}
Waits == {TTL - 1, TTL}

(***************************************************************************)
(* State.                                                                  *)
(***************************************************************************)
VARIABLES
  localStorage,           \* key -> stored string, Null when the key is absent
  now,                    \* Date.now()
  ticks, loads,           \* clock advances and page loads so far (bounded)
  clicks,                 \* the buttons of the widget the user has clicked
                          \* since it was inserted, in order (history)
  href,                   \* window.location.href of the page load
  document,               \* which anchors of the host page exist, where
                          \* the leaderboard table stands, and whether the
                          \* widget is in the page
  pc,                     \* position of the entry point
  teamPageTag, memberCount, seasonRaces,
  weeklyLeaderBoardInfo, seasonLeaderBoardInfo,
  weeklyTopInfo, seasonTopInfo,
  response,               \* the Response the suspended operation holds
  requests,               \* fetch() calls of this page load, in order
  console,                \* console.error() calls of this page load
  observer,               \* the MutationObserver of waitForElm is connected
  records,                \* a record of added nodes is queued for the
                          \* observer's callback
  tablesContainerDiv,     \* the element waitForElm resolved with, and
                          \* whether it is in the document; Undefined
                          \* until waitForElm resolves
  widget,                 \* the widget the continuation has built and put
                          \* into the resolved element, as the clicks have
                          \* left it; Undefined until then
  lastWrite,              \* per cache key: payload and time (and, for the
                          \* team stats, the team tag requested) of the last
                          \* write after a network fetch (history)
  ret                     \* per operation: how its call of this page load
                          \* ended (history)

locals == <<teamPageTag, memberCount, seasonRaces, weeklyLeaderBoardInfo,
            seasonLeaderBoardInfo, weeklyTopInfo, seasonTopInfo>>
page == <<href, document, observer, records, tablesContainerDiv, widget>>
env == <<now, ticks, loads, clicks>>
vars == <<localStorage, env, page, pc, locals, response, requests, console,
          lastWrite, ret>>

NoRet == [from |-> "none"]
\* The documents of the host page, as the selectors of the script find
\* them in the whole document.  container: document.querySelector(
\* ".well--p.well--l_p") is an element.  leaderboard: document.querySelector(
\* ".table--leaderboard") is an element, the table (the first one of the
\* document, which is the widget's own table when no other precedes it).
\* parent: where the table's parentElement stands with respect to the
\* element of waitForElm (the first matching element until waitForElm
\* resolves, the resolved element afterwards): "none" when there is no
\* table or the table is the root element and has no parentElement,
\* "child" when the parent is a child of that element, "apart" when it is
\* not.  sibling: the parent stands apart and has a following sibling, the
\* case in which insertBefore throws.  widget: document.querySelector(
\* ".table-body--leaderboard--requirements") is an element, that is, the
\* widget is in the page.
Documents ==
  {d \in [container : BOOLEAN, leaderboard : BOOLEAN,
          parent : {"none", "child", "apart"}, sibling : BOOLEAN,
          widget : BOOLEAN] :
     /\ (d.parent # "none") => d.leaderboard
     /\ d.sibling => (d.parent = "apart")
     /\ d.widget => d.leaderboard}

\* The document a page load starts with: the page has rendered its tables,
\* the leaderboard table in the container, or it has not yet.
LoadDocuments ==
  {d \in Documents : /\ d.container = d.leaderboard
                     /\ d.parent = (IF d.leaderboard THEN "child" ELSE "none")
                     /\ ~d.widget}

Init ==
  /\ localStorage \in [Keys -> {Null, Garbage} \cup Sessions]
  /\ \A k \in CacheKeys : localStorage[k] \in {Null, Garbage}
  /\ Cardinality({k \in CacheKeys : localStorage[k] = Garbage}) <= 1
  /\ localStorage[sessionKey] \in Sessions
  /\ now = 0 /\ ticks = 0 /\ loads = 1
  /\ clicks = <<>>
  /\ href \in Hrefs
  /\ document \in LoadDocuments
  /\ pc = "start"
  /\ teamPageTag = Undefined /\ memberCount = Undefined
  /\ seasonRaces = Undefined
  /\ weeklyLeaderBoardInfo = Undefined /\ seasonLeaderBoardInfo = Undefined
  /\ weeklyTopInfo = Undefined /\ seasonTopInfo = Undefined
  /\ response = Undefined
  /\ requests = <<>> /\ console = <<>>
  /\ observer = FALSE /\ records = FALSE
  /\ tablesContainerDiv = Undefined
  /\ widget = Undefined
  /\ lastWrite = [k \in CacheKeys |-> Null]
  /\ ret = [o \in Ops |-> NoRet]

(***************************************************************************)
(* Helpers shared by the three fetch operations.                           *)
(***************************************************************************)
\* v && ... on the values a parsed cache entry can be.
Truthy(v) == ~IsNullish(v)

\* Date.now() - entry.timestamp < 20 * 60 * 1000; a missing timestamp makes
\* the difference NaN and the comparison false.
FreshInclusive(entry, t) ==
  LET ts == Get(entry, "timestamp")
  IN  IsNum(ts) /\ t * ts.den - ts.num <= TTL * ts.den
FreshForever(entry, t) == IsNum(Get(entry, "timestamp"))
Fresh(entry, t) ==
  LET ts == Get(entry, "timestamp")
  IN  IsNum(ts) /\ t * ts.den - ts.num < TTL * ts.den

\* if (!response.ok) throw ...
NotOkIgnored(r) == FALSE
NotOk(r) == ~r.ok

\* fetch(url): the request is issued.
fetchTwice(reqs, url) == reqs \o <<url, url>>
fetch(reqs, url) == Append(reqs, url)

\* History of an operation's return: from the cache or the network with a
\* value, or by a throw.
Returned(op, from, value) ==
  ret' = [ret EXCEPT ![op] = IF from = "throw" THEN [from |-> from]
                             ELSE [from |-> from, value |-> value]]

(***************************************************************************)
(* Entry point: the ownership guard.                                       *)
(***************************************************************************)
\* window.location.href.split("/")[4]
TeamPageTagOf(h) ==
  LET parts == split(h, "/")
  IN  IF Len(parts) > 4 THEN Str(parts[5]) ELSE Undefined

\* JSON.parse(JSON.parse(localStorage.getItem("persist:nt")).user).tag, or
\* the error it throws.
UserTeamTag(ls) ==
  LET outer == JSONParse(ls[sessionKey])
  IN  IF IsThrown(outer) THEN outer
      ELSE IF IsNullish(outer) THEN TypeError
      ELSE LET user == Get(outer, "user")
           IN  IF user = Undefined THEN SyntaxError
               ELSE LET inner == JSONParse(user)
                    IN  IF IsThrown(inner) THEN inner
                        ELSE IF IsNullish(inner) THEN TypeError
                        ELSE Get(inner, "tag")

\* if (userTeamTAG !== teamPageTag) return;
NotOwnTeamPageNever(userTeamTAG, tag) == FALSE
NotOwnTeamPage(userTeamTAG, tag) == userTeamTAG # tag

EntryPoint ==
  /\ pc = "start"
  /\ teamPageTag' = TeamPageTagOf(href)
  /\ LET userTeamTAG == UserTeamTag(localStorage)
     IN  pc' = IF IsThrown(userTeamTAG) THEN "crashed"
               ELSE IF NotOwnTeamPage(userTeamTAG, teamPageTag') THEN "returned"
               ELSE "fetchTeamStats"
  /\ UNCHANGED <<localStorage, env, page, memberCount, seasonRaces,
                 weeklyLeaderBoardInfo, seasonLeaderBoardInfo, weeklyTopInfo,
                 seasonTopInfo, response, requests, console, lastWrite, ret>>

(***************************************************************************)
(* fetchTeamStats and the caller's use of its result.                      *)
(***************************************************************************)
\* results.stats.find((stat) => stat.board === "season")?.played
SeasonPlayed(stats) ==
  LET hits == {i \in 1..Len(stats) :
                 Get(stats[i], "board") = Str(<<"season">>)}
  IN  IF hits = {} THEN Undefined
      ELSE Get(stats[CHOOSE i \in hits : \A j \in hits : i <= j], "played")

\* const { results } = data; memberCount = results.info.members;
\* seasonRaces = ...: the values the two variables end with, and whether a
\* TypeError was thrown on the way.
TeamStatsUse(data) ==
  LET keep == [threw |-> TRUE, memberCount |-> memberCount,
               seasonRaces |-> seasonRaces]
  IN  IF IsNullish(data) THEN keep
      ELSE LET results == Get(data, "results")
           IN  IF IsNullish(results) THEN keep
               ELSE LET info == Get(results, "info")
                        stats == Get(results, "stats")
                    IN  IF IsNullish(info) THEN keep
                        ELSE IF ~IsArr(stats)
                        THEN [keep EXCEPT !.memberCount = Get(info, "members")]
                        ELSE [threw |-> FALSE,
                              memberCount |-> Get(info, "members"),
                              seasonRaces |-> SeasonPlayed(stats.arr)]

\* fetchTeamStats resolved with data: the rest of the caller's try block,
\* and its catch.
TeamStatsResolved(data) ==
  LET use == TeamStatsUse(data)
  IN  /\ memberCount' = use.memberCount
      /\ seasonRaces' = use.seasonRaces
      /\ console' = IF use.threw
                    THEN Append(console, "Error retrieving team stats")
                    ELSE console
      /\ pc' = "getWeeklyLeaderBoardInfoStats"

\* fetchTeamStats threw: its own catch logs and rethrows, the caller's catch
\* logs.
TeamStatsRejected(error) ==
  /\ Returned("fetchTeamStats", "throw", error)
  /\ console' = console \o <<"Error fetching team stats",
                             "Error retrieving team stats">>
  /\ pc' = "getWeeklyLeaderBoardInfoStats"
  /\ UNCHANGED <<memberCount, seasonRaces>>

\* JSON.stringify({ data, timestamp: Date.now() })
teamStatsEntry(data, t) == JSONStringify([data |-> data, timestamp |-> Num(t)])

\* The call with a sliding expiry: a hit stores the entry again with the
\* time of the read.
fetchTeamStatsSliding ==
  /\ pc = "fetchTeamStats"
  /\ LET teamStats == JSONParse(localStorage[teamStatsKey])
     IN  IF IsThrown(teamStats)
         THEN /\ TeamStatsRejected(teamStats)
              /\ UNCHANGED <<requests, localStorage>>
         ELSE IF Truthy(teamStats) /\ Fresh(teamStats, now)
         THEN /\ Returned("fetchTeamStats", "cache", Get(teamStats, "data"))
              /\ TeamStatsResolved(Get(teamStats, "data"))
              /\ localStorage' =
                   [localStorage EXCEPT ![teamStatsKey] =
                      teamStatsEntry(Get(teamStats, "data"), now)]
              /\ UNCHANGED <<requests>>
         ELSE /\ requests' = fetch(requests, <<"api/v2/teams", teamPageTag>>)
              /\ pc' = "fetchTeamStats_response"
              /\ UNCHANGED <<memberCount, seasonRaces, console, ret,
                             localStorage>>
  /\ UNCHANGED <<env, page, teamPageTag, weeklyLeaderBoardInfo,
                 seasonLeaderBoardInfo, weeklyTopInfo, seasonTopInfo,
                 response, lastWrite>>

\* The call, up to its return from the cache, its throw, or its suspension
\* in fetch().
fetchTeamStats ==
  /\ pc = "fetchTeamStats"
  /\ LET teamStats == JSONParse(localStorage[teamStatsKey])
     IN  IF IsThrown(teamStats)
         THEN /\ TeamStatsRejected(teamStats)
              /\ UNCHANGED <<requests>>
         ELSE IF Truthy(teamStats) /\ Fresh(teamStats, now)
         THEN /\ Returned("fetchTeamStats", "cache", Get(teamStats, "data"))
              /\ TeamStatsResolved(Get(teamStats, "data"))
              /\ UNCHANGED <<requests>>
         ELSE /\ requests' = fetch(requests, <<"api/v2/teams", teamPageTag>>)
              /\ pc' = "fetchTeamStats_response"
              /\ UNCHANGED <<memberCount, seasonRaces, console, ret>>
  /\ UNCHANGED <<localStorage, env, page, teamPageTag, weeklyLeaderBoardInfo,
                 seasonLeaderBoardInfo, weeklyTopInfo, seasonTopInfo,
                 response, lastWrite>>

\* fetch() settles: a rejection or a non-success status throws.
fetchTeamStatsResponse ==
  /\ pc = "fetchTeamStats_response"
  /\ \E r \in Responses(TeamBodies) :
       IF IsThrown(r)
       THEN TeamStatsRejected(r) /\ UNCHANGED response
       ELSE IF NotOk(r)
       THEN TeamStatsRejected([thrown |-> "Error", status |-> r.status])
            /\ UNCHANGED response
       ELSE /\ response' = r
            /\ pc' = "fetchTeamStats_json"
            /\ UNCHANGED <<memberCount, seasonRaces, console, ret>>
  /\ UNCHANGED <<localStorage, env, page, teamPageTag, weeklyLeaderBoardInfo,
                 seasonLeaderBoardInfo, weeklyTopInfo, seasonTopInfo,
                 requests, lastWrite>>

\* response.json() settles: the body is stored and returned, or the parse
\* error is thrown.
fetchTeamStatsJson ==
  /\ pc = "fetchTeamStats_json"
  /\ LET data == JSONParse(response.body)
     IN  IF IsThrown(data)
         THEN TeamStatsRejected(data) /\ UNCHANGED <<localStorage, lastWrite>>
         ELSE /\ localStorage' =
                   [localStorage EXCEPT ![teamStatsKey] = teamStatsEntry(data, now)]
              /\ lastWrite' =
                   [lastWrite EXCEPT ![teamStatsKey] =
                      [payload |-> data, at |-> now, tag |-> teamPageTag]]
              /\ Returned("fetchTeamStats", "network", data)
              /\ TeamStatsResolved(data)
  /\ response' = Undefined
  /\ UNCHANGED <<env, page, teamPageTag, weeklyLeaderBoardInfo,
                 seasonLeaderBoardInfo, weeklyTopInfo, seasonTopInfo,
                 requests>>

(***************************************************************************)
(* The leaderboards.                                                       *)
(***************************************************************************)
\* scores.map(({ played, points }) => ({ played, points }))
MapPlayedPoints(scores) ==
  Arr([i \in 1..Len(scores.arr) |->
         [played |-> Get(scores.arr[i], "played"),
          points |-> Get(scores.arr[i], "points")]])

(***************************************************************************)
(* getWeeklyLeaderBoardInfoStats and the caller's use of its result.        *)
(***************************************************************************)
\* getWeeklyLeaderBoardInfoStats resolved with scores: the assignment, the
\* map, and the caller's catch when the map throws.
WeeklyResolved(scores) ==
  /\ weeklyLeaderBoardInfo' =
       IF IsArr(scores) THEN MapPlayedPoints(scores) ELSE scores
  /\ console' = IF IsArr(scores) THEN console
                ELSE Append(console, "Error retrieving leaderboard info")
  /\ pc' = IF IsArr(scores) THEN "getSeasonLeaderBoardInfoStats"
            ELSE "calculate"

\* getWeeklyLeaderBoardInfoStats threw: its own catch logs and rethrows, the
\* caller's catch logs;
\* the season leaderboard of the same try block is not retrieved.
WeeklyRejected(error) ==
  /\ Returned("getWeeklyLeaderBoardInfoStats", "throw", error)
  /\ console' = console \o <<"Error fetching season leaderboard",
                             "Error retrieving leaderboard info">>
  /\ pc' = "calculate"
  /\ UNCHANGED <<weeklyLeaderBoardInfo>>

\* JSON.stringify({ weeklyLeaderboardInfo: results.scores, timestamp: Date.now() })
weeklyEntry(scores, t) ==
  JSONStringify([weeklyLeaderboardInfo |-> scores, timestamp |-> Num(t)])

\* The call, up to its return from the cache, its throw, or its suspension
\* in fetch().
getWeeklyLeaderBoardInfoStats ==
  /\ pc = "getWeeklyLeaderBoardInfoStats"
  /\ LET leaderboardInfo == JSONParse(localStorage[weeklyKey])
     IN  IF IsThrown(leaderboardInfo)
         THEN /\ WeeklyRejected(leaderboardInfo)
              /\ UNCHANGED <<requests>>
         ELSE IF Truthy(leaderboardInfo) /\ Fresh(leaderboardInfo, now)
         THEN /\ Returned("getWeeklyLeaderBoardInfoStats", "cache",
                          Get(leaderboardInfo, "weeklyLeaderboardInfo"))
              /\ WeeklyResolved(Get(leaderboardInfo, "weeklyLeaderboardInfo"))
              /\ UNCHANGED <<requests>>
         ELSE /\ requests' = fetch(requests, <<"api/v2/leaderboards", "weekly">>)
              /\ pc' = "getWeeklyLeaderBoardInfoStats_response"
              /\ UNCHANGED <<weeklyLeaderBoardInfo, console, ret>>
  /\ UNCHANGED <<localStorage, env, page, teamPageTag, memberCount,
                 seasonRaces, seasonLeaderBoardInfo, weeklyTopInfo,
                 seasonTopInfo, response, lastWrite>>

\* fetch() settles: a rejection or a non-success status throws.
getWeeklyLeaderBoardInfoStatsResponse ==
  /\ pc = "getWeeklyLeaderBoardInfoStats_response"
  /\ \E r \in Responses(WeeklyBodies) :
       IF IsThrown(r)
       THEN WeeklyRejected(r) /\ UNCHANGED response
       ELSE IF NotOk(r)
       THEN WeeklyRejected([thrown |-> "Error", status |-> r.status])
            /\ UNCHANGED response
       ELSE /\ response' = r
            /\ pc' = "getWeeklyLeaderBoardInfoStats_json"
            /\ UNCHANGED <<weeklyLeaderBoardInfo, console, ret>>
  /\ UNCHANGED <<localStorage, env, page, teamPageTag, memberCount,
                 seasonRaces, seasonLeaderBoardInfo, weeklyTopInfo,
                 seasonTopInfo, requests, lastWrite>>

\* response.json() settles: results.scores is stored and returned, or the
\* parse error (or the TypeError of a body without results) is thrown.
getWeeklyLeaderBoardInfoStatsJson ==
  /\ pc = "getWeeklyLeaderBoardInfoStats_json"
  /\ LET body == JSONParse(response.body)
         results == IF IsThrown(body) \/ IsNullish(body) THEN Undefined
                    ELSE Get(body, "results")
     IN  IF IsThrown(body)
         THEN WeeklyRejected(body) /\ UNCHANGED <<localStorage, lastWrite>>
         ELSE IF IsNullish(results)
         THEN WeeklyRejected(TypeError) /\ UNCHANGED <<localStorage, lastWrite>>
         ELSE LET scores == Get(results, "scores")
              IN  /\ localStorage' =
                       [localStorage EXCEPT ![weeklyKey] = weeklyEntry(scores, now)]
                  /\ lastWrite' =
                       [lastWrite EXCEPT ![weeklyKey] =
                          [payload |-> scores, at |-> now]]
                  /\ Returned("getWeeklyLeaderBoardInfoStats", "network", scores)
                  /\ WeeklyResolved(scores)
  /\ response' = Undefined
  /\ UNCHANGED <<env, page, teamPageTag, memberCount, seasonRaces,
                 seasonLeaderBoardInfo, weeklyTopInfo, seasonTopInfo,
                 requests>>

(***************************************************************************)
(* getSeasonLeaderBoardInfoStats and the caller's use of its result.        *)
(***************************************************************************)
\* getSeasonLeaderBoardInfoStats resolved with scores: the assignment, the
\* map, and the caller's catch when the map throws.
SeasonResolved(scores) ==
  /\ seasonLeaderBoardInfo' =
       IF IsArr(scores) THEN MapPlayedPoints(scores) ELSE scores
  /\ console' = IF IsArr(scores) THEN console
                ELSE Append(console, "Error retrieving leaderboard info")
  /\ pc' = "calculate"

\* getSeasonLeaderBoardInfoStats threw: its own catch logs and rethrows, the
\* caller's catch logs.
SeasonRejected(error) ==
  /\ Returned("getSeasonLeaderBoardInfoStats", "throw", error)
  /\ console' = console \o <<"Error fetching season leaderboard",
                             "Error retrieving leaderboard info">>
  /\ pc' = "calculate"
  /\ UNCHANGED <<seasonLeaderBoardInfo>>

\* JSON.stringify({ seasonLeaderboardInfo: results.scores, timestamp: Date.now() })
seasonEntry(scores, t) ==
  JSONStringify([seasonLeaderboardInfo |-> scores, timestamp |-> Num(t)])

\* The call, up to its return from the cache, its throw, or its suspension
\* in fetch().
getSeasonLeaderBoardInfoStats ==
  /\ pc = "getSeasonLeaderBoardInfoStats"
  /\ LET leaderboardInfo == JSONParse(localStorage[seasonKey])
     IN  IF IsThrown(leaderboardInfo)
         THEN /\ SeasonRejected(leaderboardInfo)
              /\ UNCHANGED <<requests>>
         ELSE IF Truthy(leaderboardInfo) /\ Fresh(leaderboardInfo, now)
         THEN /\ Returned("getSeasonLeaderBoardInfoStats", "cache",
                          Get(leaderboardInfo, "seasonLeaderboardInfo"))
              /\ SeasonResolved(Get(leaderboardInfo, "seasonLeaderboardInfo"))
              /\ UNCHANGED <<requests>>
         ELSE /\ requests' = fetch(requests, <<"api/v2/leaderboards", "season">>)
              /\ pc' = "getSeasonLeaderBoardInfoStats_response"
              /\ UNCHANGED <<seasonLeaderBoardInfo, console, ret>>
  /\ UNCHANGED <<localStorage, env, page, teamPageTag, memberCount,
                 seasonRaces, weeklyLeaderBoardInfo, weeklyTopInfo,
                 seasonTopInfo, response, lastWrite>>

\* fetch() settles: a rejection or a non-success status throws.
getSeasonLeaderBoardInfoStatsResponse ==
  /\ pc = "getSeasonLeaderBoardInfoStats_response"
  /\ \E r \in Responses(SeasonBodies) :
       IF IsThrown(r)
       THEN SeasonRejected(r) /\ UNCHANGED response
       ELSE IF NotOk(r)
       THEN SeasonRejected([thrown |-> "Error", status |-> r.status])
            /\ UNCHANGED response
       ELSE /\ response' = r
            /\ pc' = "getSeasonLeaderBoardInfoStats_json"
            /\ UNCHANGED <<seasonLeaderBoardInfo, console, ret>>
  /\ UNCHANGED <<localStorage, env, page, teamPageTag, memberCount,
                 seasonRaces, weeklyLeaderBoardInfo, weeklyTopInfo,
                 seasonTopInfo, requests, lastWrite>>

\* response.json() settles: results.scores is stored and returned, or the
\* parse error (or the TypeError of a body without results) is thrown.
getSeasonLeaderBoardInfoStatsJson ==
  /\ pc = "getSeasonLeaderBoardInfoStats_json"
  /\ LET body == JSONParse(response.body)
         results == IF IsThrown(body) \/ IsNullish(body) THEN Undefined
                    ELSE Get(body, "results")
     IN  IF IsThrown(body)
         THEN SeasonRejected(body) /\ UNCHANGED <<localStorage, lastWrite>>
         ELSE IF IsNullish(results)
         THEN SeasonRejected(TypeError) /\ UNCHANGED <<localStorage, lastWrite>>
         ELSE LET scores == Get(results, "scores")
              IN  /\ localStorage' =
                       [localStorage EXCEPT ![seasonKey] = seasonEntry(scores, now)]
                  /\ lastWrite' =
                       [lastWrite EXCEPT ![seasonKey] =
                          [payload |-> scores, at |-> now]]
                  /\ Returned("getSeasonLeaderBoardInfoStats", "network", scores)
                  /\ SeasonResolved(scores)
  /\ response' = Undefined
  /\ UNCHANGED <<env, page, teamPageTag, memberCount, seasonRaces,
                 weeklyLeaderBoardInfo, weeklyTopInfo, seasonTopInfo,
                 requests>>

(***************************************************************************)
(* The requirement calculation.                                            *)
(***************************************************************************)
\* Math.ceil(value.played / 7 / memberCount)
weeklyDailyFloor(value, members) ==
  LET q == JSDiv(JSDiv(Get(value, "played"), Num(7)), members)
  IN  IF IsNum(q) THEN Num(q.num \div q.den) ELSE NaN
weeklyDailyMemberRaces(value, members) ==
  MathCeil(JSDiv(JSDiv(Get(value, "played"), Num(7)), members))

\* Math.ceil((value.played - seasonRaces) / memberCount)
seasonDailyPerWeek(value, played, members) ==
  MathCeil(JSDiv(JSDiv(JSSub(Get(value, "played"), played), Num(7)), members))
seasonDailyFloor(value, played, members) ==
  LET q == JSDiv(JSSub(Get(value, "played"), played), members)
  IN  IF IsNum(q) THEN Num(q.num \div q.den) ELSE NaN
seasonDailyMemberRaces(value, played, members) ==
  MathCeil(JSDiv(JSSub(Get(value, "played"), played), members))

\* { top1: info[0], top3: info[2], top10: info[9], top50: info[49],
\*   top100: info[99] }
TopInfoOf(info) == [k \in MilestoneKeys |-> At(info.arr, IndexOf(k))]

\* The position of the first milestone whose entry is undefined, where the
\* loop over Object.entries throws; Len(Milestones) + 1 when there is none.
FirstMissing(top) ==
  LET missing == {i \in 1..Len(Milestones) : top[Milestones[i].key] = Undefined}
  IN  IF missing = {} THEN Len(Milestones) + 1
      ELSE CHOOSE i \in missing : \A j \in missing : i <= j

\* o.dailyMemberRaces = d
WithDaily(o, d) ==
  [f \in DOMAIN o \cup {"dailyMemberRaces"} |->
     IF f = "dailyMemberRaces" THEN d ELSE o[f]]

\* The loop over Object.entries(top), in insertion order, up to the entry
\* that throws; daily[k] is the value computed for the entry of key k.
AssignDaily(top, daily) ==
  [k \in MilestoneKeys |->
     LET i == CHOOSE j \in 1..Len(Milestones) : Milestones[j].key = k
     IN  IF i < FirstMissing(top) THEN WithDaily(top[k], daily[k])
         ELSE top[k]]

\* The entries of the top info are the objects of the array itself.
Aliased(info, top) ==
  Arr([i \in 1..Len(info.arr) |->
         IF \E k \in MilestoneKeys : IndexOf(k) + 1 = i
         THEN top[CHOOSE k \in MilestoneKeys : IndexOf(k) + 1 = i]
         ELSE info.arr[i]])

Calculate ==
  /\ pc = "calculate"
  /\ IF ~IsArr(weeklyLeaderBoardInfo)
     THEN /\ pc' = "crashed"
          /\ UNCHANGED <<weeklyLeaderBoardInfo, seasonLeaderBoardInfo,
                         weeklyTopInfo, seasonTopInfo>>
     ELSE IF ~IsArr(seasonLeaderBoardInfo)
     THEN /\ pc' = "crashed"
          /\ weeklyTopInfo' = TopInfoOf(weeklyLeaderBoardInfo)
          /\ UNCHANGED <<weeklyLeaderBoardInfo, seasonLeaderBoardInfo,
                         seasonTopInfo>>
     ELSE LET weekly0 == TopInfoOf(weeklyLeaderBoardInfo)
              season0 == TopInfoOf(seasonLeaderBoardInfo)
              WeeklyDaily ==
                [k \in MilestoneKeys |->
                   weeklyDailyMemberRaces(weekly0[k], memberCount)]
              SeasonDaily ==
                [k \in MilestoneKeys |->
                   seasonDailyMemberRaces(season0[k], seasonRaces, memberCount)]
              weeklyThrows == FirstMissing(weekly0) <= Len(Milestones)
              seasonThrows == FirstMissing(season0) <= Len(Milestones)
          IN  /\ weeklyTopInfo' = AssignDaily(weekly0, WeeklyDaily)
              /\ seasonTopInfo' = IF weeklyThrows THEN season0
                                  ELSE AssignDaily(season0, SeasonDaily)
              /\ weeklyLeaderBoardInfo' =
                   Aliased(weeklyLeaderBoardInfo, weeklyTopInfo')
              /\ seasonLeaderBoardInfo' =
                   Aliased(seasonLeaderBoardInfo, seasonTopInfo')
              /\ pc' = IF weeklyThrows \/ seasonThrows THEN "crashed"
                       ELSE "waitForElm"
  /\ UNCHANGED <<localStorage, env, page, teamPageTag, memberCount,
                 seasonRaces, response, requests, console, lastWrite, ret>>

(***************************************************************************)
(* The widget.                                                             *)
(***************************************************************************)
\* Number.prototype.toLocaleString: the text of a cell, which determines
\* the number it was made from.
toLocaleString(v) == [text |-> v]

\* One row per entry of topInfo, in insertion order.
createTopTeamRequirementsTableBody(topInfo) ==
  [i \in 1..Len(Milestones) |->
     LET value == topInfo[Milestones[i].key]
     IN  [place |-> Milestones[i].index + 1,
          races |-> toLocaleString(Get(value, "played")),
          points |-> toLocaleString(Get(value, "points")),
          dailyMemberRaces |-> toLocaleString(Get(value, "dailyMemberRaces"))]]

\* The widget as first built: the Weekly button active (link--i), the
\* Season button inactive (link--h), the body of topInfo, the footnote of
\* the member count.
createTopTeamRequirementsWidget(topInfo) ==
  [weeklyButton |-> {"link", "link--s", "link--i"},
   seasonButton |-> {"link", "link--s", "link--h"},
   body |-> createTopTeamRequirementsTableBody(topInfo),
   footer |-> [members |-> memberCount]]

\* classList.toggle(token)
toggleAdd(classList, token) == classList \cup {token}
toggle(classList, token) ==
  IF token \in classList THEN classList \ {token} ELSE classList \cup {token}

\* event.target.classList.toggle("link--h"); .toggle("link--i")
toggleStyle(classList) == toggle(toggle(classList, "link--h"), "link--i")

\* `* Calculated for ${memberCount} members and ${seasonRaces} season races.`
seasonFootnoteMembersOnly == [members |-> memberCount]
seasonFootnote == [members |-> memberCount, seasonRaces |-> seasonRaces]

\* `* Calculated for ${memberCount} members.` of the Weekly listener.
weeklyFootnote == [members |-> memberCount]

\* The table body the Weekly listener puts in place of the present one.
weeklyBodyKept == widget.body
weeklyBody == createTopTeamRequirementsTableBody(weeklyTopInfo)

\* The table body the Season listener puts in place of the present one.
seasonBody == createTopTeamRequirementsTableBody(seasonTopInfo)

(***************************************************************************)
(* Page integration: waitForElm and the insertion.                         *)
(***************************************************************************)
\* waitForElm(".well--p.well--l_p") up to the await of its promise: the
\* observer is connected, and disconnected at once when the element is
\* already there; the promise resolves with that element, and the
\* continuation of the entry point runs later.
waitForElm ==
  /\ pc = "waitForElm"
  /\ IF document.container
     THEN /\ observer' = FALSE /\ pc' = "resolved"
          /\ tablesContainerDiv' = [connected |-> TRUE]
     ELSE /\ observer' = TRUE /\ pc' = "waiting"
          /\ UNCHANGED tablesContainerDiv
  /\ records' = FALSE
  /\ UNCHANGED <<localStorage, env, href, document, widget, locals, response,
                 requests, console, lastWrite, ret>>

\* The observer's callback, on the queued records of added nodes: it looks
\* for the element in the document as it is now.
MutationCallback ==
  /\ pc = "waiting" /\ observer /\ records
  /\ records' = FALSE
  /\ IF document.container
     THEN /\ observer' = FALSE /\ pc' = "resolved"
          /\ tablesContainerDiv' = [connected |-> TRUE]
     ELSE UNCHANGED <<observer, pc, tablesContainerDiv>>
  /\ UNCHANGED <<localStorage, env, href, document, widget, locals, response,
                 requests, console, lastWrite, ret>>

\* document.querySelector(".table--leaderboard")?.parentElement is an
\* element.
leaderboardTableDiv(doc) == doc.leaderboard /\ doc.parent # "none"

\* The continuation of the entry point once waitForElm has resolved: the
\* leaderboard table is looked up in the document as it is now, and the
\* widget goes into the resolved element before the sibling of the table's
\* parent.  The diagnostic is logged when the table has no parent element
\* to give; insertBefore throws when the sibling is no child of the
\* resolved element.  The widget is in the page when the resolved element
\* is, whether or not that element still matches the selector.  The
\* widget's own table matches .table--leaderboard: appended to the
\* resolved element, it is the first table of the document when the
\* element precedes the table of the page.
Integrate ==
  /\ pc = "resolved"
  /\ IF ~leaderboardTableDiv(document)
     THEN /\ console' = Append(console,
                 "Could not find the container div or leaderboard table div.")
          /\ pc' = "done"
          /\ UNCHANGED <<widget, document>>
     ELSE IF document.sibling
     THEN /\ pc' = "crashed"
          /\ UNCHANGED <<widget, document, console>>
     ELSE /\ widget' = createTopTeamRequirementsWidget(weeklyTopInfo)
          /\ IF tablesContainerDiv.connected
             THEN \E first \in BOOLEAN :
                    document' =
                      [document EXCEPT
                         !.widget = TRUE,
                         !.parent = IF first THEN "child" ELSE document.parent]
             ELSE UNCHANGED document
          /\ pc' = "done"
          /\ UNCHANGED console
  /\ UNCHANGED <<localStorage, env, href, observer, records,
                 tablesContainerDiv, locals, response, requests, lastWrite,
                 ret>>

\* The user clicks the Season button of the inserted widget: both buttons
\* toggle both styles, the table body is replaced by one built from
\* seasonTopInfo, the footnote is rewritten.
onSeasonClick ==
  /\ pc = "done" /\ widget # Undefined /\ document.widget
  /\ Len(clicks) < MaxClicks
  /\ clicks' = Append(clicks, "Season")
  /\ widget' = [weeklyButton |-> toggleStyle(widget.weeklyButton),
                seasonButton |-> toggleStyle(widget.seasonButton),
                body |-> seasonBody,
                footer |-> seasonFootnote]
  /\ UNCHANGED <<localStorage, now, ticks, loads, href, document, observer,
                 records, tablesContainerDiv, pc, locals, response, requests, console, lastWrite, ret>>

\* The Weekly listener that also fetches the weekly leaderboard again.
onWeeklyClickRefetch ==
  /\ pc = "done" /\ widget # Undefined /\ document.widget
  /\ Len(clicks) < MaxClicks
  /\ clicks' = Append(clicks, "Weekly")
  /\ widget' = [weeklyButton |-> toggleStyle(widget.weeklyButton),
                seasonButton |-> toggleStyle(widget.seasonButton),
                body |-> weeklyBody,
                footer |-> weeklyFootnote]
  /\ requests' = fetch(requests, <<"api/v2/leaderboards", "weekly">>)
  /\ UNCHANGED <<localStorage, now, ticks, loads, href, document, observer,
                 records, tablesContainerDiv, pc, locals, response, console, lastWrite, ret>>

\* The user clicks the Weekly button of the inserted widget.
onWeeklyClick ==
  /\ pc = "done" /\ widget # Undefined /\ document.widget
  /\ Len(clicks) < MaxClicks
  /\ clicks' = Append(clicks, "Weekly")
  /\ widget' = [weeklyButton |-> toggleStyle(widget.weeklyButton),
                seasonButton |-> toggleStyle(widget.seasonButton),
                body |-> weeklyBody,
                footer |-> weeklyFootnote]
  /\ UNCHANGED <<localStorage, now, ticks, loads, href, document, observer,
                 records, tablesContainerDiv, pc, locals, response, requests, console, lastWrite, ret>>

\* The positions at which the script waits for the network, and those at
\* which it waits for the DOM or has ended.
Fetching ==
  {"fetchTeamStats_response", "getWeeklyLeaderBoardInfoStats_response",
   "getSeasonLeaderBoardInfoStats_response"}
Resting == {"waiting", "done", "returned", "crashed"}

\* The element of waitForElm is in the document: the first matching
\* element before waitForElm resolves, the resolved element afterwards.
Present(doc, elm) ==
  IF elm = Undefined THEN doc.container ELSE elm.connected

\* What a change of the host page can make of the element waitForElm
\* resolved with: it is in the document or out of it.
Elements(elm) ==
  IF elm = Undefined THEN {elm} ELSE {[connected |-> b] : b \in BOOLEAN}

\* The documents a change of the host page can leave: the table's parent
\* is a child of the element of waitForElm only when that element is in
\* the document, and the widget is in the page only once it is built.
HostDocuments(elm, wdg) ==
  {d \in Documents : /\ (d.parent = "child") => Present(d, elm)
                     /\ d.widget => (wdg # Undefined)}

\* The host page changes the DOM while the script is suspended.  One change
\* (a subtree appended, removed or replaced, a class attribute set) can
\* alter any of what the selectors find, all at once: the first matching
\* elements, the place of the table's parent, its following sibling,
\* whether the resolved element and the widget are in the document.  The
\* observer is registered on document.body for childList and subtree: it
\* gets a record of added nodes for nodes added under body, and none for an
\* attribute change, a removal, or nodes added outside body, while the
\* selectors query the whole document.  So whether a record is queued is
\* independent of what the change does to the document.  The script does
\* not look at the document before waitForElm, so what the page did while
\* the script was suspended in its retrievals is taken just before that
\* first look (pc = "waitForElm"); afterwards the page acts whenever the
\* script is suspended or has ended: waiting for the observer, resolved
\* and not yet continued, done with the listeners of the widget left,
\* returned or crashed.
DomMutation ==
  /\ pc \in {"waitForElm", "resolved"} \cup Resting
  /\ \E elm \in Elements(tablesContainerDiv), added \in BOOLEAN :
       \E doc \in HostDocuments(elm, widget) :
         /\ added => observer
         /\ document' = doc
         /\ tablesContainerDiv' = elm
         /\ records' = (records \/ added)
  /\ UNCHANGED <<localStorage, env, href, observer, widget, pc, locals,
                 response, requests, console, lastWrite, ret>>

(***************************************************************************)
(* The environment: time passes, the user loads a page again.              *)
(***************************************************************************)
Tick ==
  /\ pc \in Fetching
  /\ ticks < MaxTicks
  /\ \E d \in TickSteps : now' = now + d
  /\ ticks' = ticks + 1
  /\ UNCHANGED <<localStorage, loads, clicks, page, pc, locals, response,
                 requests, console, lastWrite, ret>>

\* A new page load, some time after the script of the last one has ended
\* or begun to wait for the DOM: a new instance of the script, over the same
\* localStorage.
Reload ==
  /\ pc \in Resting
  /\ loads < MaxLoads
  /\ loads' = loads + 1
  /\ \E d \in Waits : now' = now + d
  /\ href' \in Hrefs
  /\ document' \in LoadDocuments
  /\ pc' = "start"
  /\ teamPageTag' = Undefined /\ memberCount' = Undefined
  /\ seasonRaces' = Undefined
  /\ weeklyLeaderBoardInfo' = Undefined /\ seasonLeaderBoardInfo' = Undefined
  /\ weeklyTopInfo' = Undefined /\ seasonTopInfo' = Undefined
  /\ response' = Undefined
  /\ requests' = <<>> /\ console' = <<>>
  /\ observer' = FALSE /\ records' = FALSE
  /\ tablesContainerDiv' = Undefined
  /\ widget' = Undefined
  /\ ret' = [o \in Ops |-> NoRet]
  /\ clicks' = <<>>
  /\ UNCHANGED <<localStorage, ticks, lastWrite>>

Next ==
  \/ EntryPoint
  \/ fetchTeamStats \/ fetchTeamStatsResponse \/ fetchTeamStatsJson
  \/ getWeeklyLeaderBoardInfoStats \/ getWeeklyLeaderBoardInfoStatsResponse
  \/ getWeeklyLeaderBoardInfoStatsJson
  \/ getSeasonLeaderBoardInfoStats \/ getSeasonLeaderBoardInfoStatsResponse
  \/ getSeasonLeaderBoardInfoStatsJson
  \/ Calculate
  \/ waitForElm \/ Integrate
  \/ onSeasonClick \/ onWeeklyClick
  \/ Tick
  \/ Reload

\* Page loads over a host page that stays as it was loaded; the host page
\* changing under the script is the subject of SpecPage below.
Spec == Init /\ [][Next]_vars

\* The steps of the script itself: the event loop runs every continuation
\* that is ready, and every fetch() settles.  The host page and the user
\* owe no step: a DOM change, a click, a reload may never come.
ScriptStep ==
  \/ EntryPoint
  \/ fetchTeamStats \/ fetchTeamStatsResponse \/ fetchTeamStatsJson
  \/ getWeeklyLeaderBoardInfoStats \/ getWeeklyLeaderBoardInfoStatsResponse
  \/ getWeeklyLeaderBoardInfoStatsJson
  \/ getSeasonLeaderBoardInfoStats \/ getSeasonLeaderBoardInfoStatsResponse
  \/ getSeasonLeaderBoardInfoStatsJson
  \/ Calculate
  \/ waitForElm \/ MutationCallback \/ Integrate

SpecFair == Spec /\ WF_vars(ScriptStep)

(***************************************************************************)
(* The team stats over several visits: the user opens a team page, leaves  *)
(* it once the team stats are retrieved, and opens a team page again after *)
(* the host page has recorded the team the user then belongs to.           *)
(***************************************************************************)
TeamTags == {"TAGA", "TAGB"}

\* A later page load over the same localStorage, in which the host page
\* has written the user's present team into persist:nt.
Revisit ==
  /\ pc \in {"getWeeklyLeaderBoardInfoStats", "returned", "crashed"}
  /\ loads < MaxLoads
  /\ loads' = loads + 1
  /\ \E d \in Waits : now' = now + d
  /\ \E tag \in TeamTags :
       localStorage' = [localStorage EXCEPT ![sessionKey] = SessionOf(tag)]
  /\ href' \in Hrefs
  /\ document' \in LoadDocuments
  /\ pc' = "start"
  /\ teamPageTag' = Undefined /\ memberCount' = Undefined
  /\ seasonRaces' = Undefined
  /\ weeklyLeaderBoardInfo' = Undefined /\ seasonLeaderBoardInfo' = Undefined
  /\ weeklyTopInfo' = Undefined /\ seasonTopInfo' = Undefined
  /\ response' = Undefined
  /\ requests' = <<>> /\ console' = <<>>
  /\ observer' = FALSE /\ records' = FALSE
  /\ tablesContainerDiv' = Undefined
  /\ widget' = Undefined
  /\ ret' = [o \in Ops |-> NoRet]
  /\ clicks' = <<>>
  /\ UNCHANGED <<ticks, lastWrite>>

NextTeams ==
  \/ EntryPoint
  \/ fetchTeamStats \/ fetchTeamStatsResponse \/ fetchTeamStatsJson
  \/ Tick
  \/ Revisit

SpecTeams == Init /\ [][NextTeams]_vars

(***************************************************************************)
(* The calculation on its own: the entry point has retrieved the three     *)
(* payloads from the network at time 0 and is about to calculate, for a    *)
(* wider range of member counts and season race counts.                    *)
(***************************************************************************)
CalcMembers == (1..MaxMembers) \cup {10, 25}
CalcSeasonRaces == {0, 3000, 3025, 4030, 5001}
\* A leaderboard of fewer than 100 scores: the first n of a full one.
ShortLeaderboardBody(top, step, n) ==
  [results |-> [scores |-> Arr(SubSeq(Scores(top, step).arr, 1, n))]]
CalcWeeklyBodies ==
  WeeklyBodies \cup {LeaderboardBody(1000, 7),
                     ShortLeaderboardBody(700, 3, 50)}
CalcSeasonBodies ==
  SeasonBodies \cup {LeaderboardBody(2000, 10),
                     ShortLeaderboardBody(5000, 20, 2)}

InitCalc ==
  \E m \in CalcMembers, p \in CalcSeasonRaces,
     w \in CalcWeeklyBodies, s \in CalcSeasonBodies :
    /\ localStorage =
         [k \in Keys |->
            IF k = "teamStats" THEN teamStatsEntry(TeamBody(m, p), 0)
            ELSE IF k = "weeklyLeaderboardInfo"
            THEN weeklyEntry(w.results.scores, 0)
            ELSE IF k = "seasonLeaderboardInfo"
            THEN seasonEntry(s.results.scores, 0)
            ELSE SessionOf("TAGA")]
    /\ lastWrite =
         [k \in CacheKeys |->
            IF k = "teamStats"
            THEN [payload |-> TeamBody(m, p), at |-> 0,
                  tag |-> Str(<<"TAGA">>)]
            ELSE IF k = "weeklyLeaderboardInfo"
            THEN [payload |-> w.results.scores, at |-> 0]
            ELSE [payload |-> s.results.scores, at |-> 0]]
    /\ ret =
         [o \in Ops |->
            [from |-> "network",
             value |-> IF o = "fetchTeamStats" THEN TeamBody(m, p)
                       ELSE IF o = "getWeeklyLeaderBoardInfoStats"
                       THEN w.results.scores
                       ELSE s.results.scores]]
    /\ memberCount = Num(m)
    /\ seasonRaces = Num(p)
    /\ weeklyLeaderBoardInfo = MapPlayedPoints(w.results.scores)
    /\ seasonLeaderBoardInfo = MapPlayedPoints(s.results.scores)
    /\ now = 0 /\ ticks = 0 /\ loads = 1
    /\ clicks = <<>>
    /\ href = <<"https:", "/", "/", "www.nitrotype.com", "/", "team", "/", "TAGA">>
    /\ teamPageTag = Str(<<"TAGA">>)
    /\ document = [container |-> FALSE, leaderboard |-> FALSE,
                   parent |-> "none", sibling |-> FALSE,
                   widget |-> FALSE]
    /\ pc = "calculate"
    /\ weeklyTopInfo = Undefined /\ seasonTopInfo = Undefined
    /\ response = Undefined
    /\ requests = <<<<"api/v2/teams", Str(<<"TAGA">>)>>,
                    <<"api/v2/leaderboards", "weekly">>,
                    <<"api/v2/leaderboards", "season">>>>
    /\ console = <<>>
    /\ observer = FALSE /\ records = FALSE
    /\ tablesContainerDiv = Undefined
    /\ widget = Undefined

NextCalc == Calculate

SpecCalc == InitCalc /\ [][NextCalc]_vars

(***************************************************************************)
(* The page integration on its own: the entry point has retrieved the      *)
(* three payloads and goes on to calculate, to wait for the container and  *)
(* to insert the widget, while the host page changes the DOM in any way    *)
(* and the user clicks the buttons of the widget.                          *)
(***************************************************************************)
InitPage ==
  /\ InitCalc
  /\ memberCount \in {Num(m) : m \in 1..MaxMembers}
  /\ seasonRaces \in {Num(0), Num(3000)}
  /\ lastWrite["weeklyLeaderboardInfo"].payload
       \in {w.results.scores : w \in WeeklyBodies}
  /\ lastWrite["seasonLeaderboardInfo"].payload
       \in {b.results.scores : b \in SeasonBodies}

NextPage ==
  \/ Calculate
  \/ waitForElm \/ MutationCallback \/ Integrate
  \/ DomMutation
  \/ onSeasonClick \/ onWeeklyClick

SpecPage == InitPage /\ [][NextPage]_vars

\* The script's own steps are run by the event loop; the host page and the
\* user owe no step.
SpecPageFair == SpecPage /\ WF_vars(ScriptStep)

(***************************************************************************)
(* Properties.                                                             *)
(***************************************************************************)
\* The fixed key and the payload property of each operation, as the
\* documentation of the cache names them.
FixedKey == [fetchTeamStats |-> "teamStats",
             getWeeklyLeaderBoardInfoStats |-> "weeklyLeaderboardInfo",
             getSeasonLeaderBoardInfoStats |-> "seasonLeaderboardInfo"]
PayloadProperty == [fetchTeamStats |-> "data",
                    getWeeklyLeaderBoardInfoStats |-> "weeklyLeaderboardInfo",
                    getSeasonLeaderBoardInfoStats |-> "seasonLeaderboardInfo"]
ResponseStage == [fetchTeamStats |-> "fetchTeamStats_response",
                  getWeeklyLeaderBoardInfoStats |->
                    "getWeeklyLeaderBoardInfoStats_response",
                  getSeasonLeaderBoardInfoStats |->
                    "getSeasonLeaderBoardInfoStats_response"]
JsonStage == [fetchTeamStats |-> "fetchTeamStats_json",
              getWeeklyLeaderBoardInfoStats |->
                "getWeeklyLeaderBoardInfoStats_json",
              getSeasonLeaderBoardInfoStats |->
                "getSeasonLeaderBoardInfoStats_json"]

\* C1: cache round-trip and expiry.  When an operation is called at time
\* now and the last network fetch of that operation stored payload P at
\* time t, the call returns exactly P, without a request, if now - t is
\* less than 20 minutes, and issues a request instead of returning the
\* stored entry if now - t is 20 minutes or more (exactly 20 minutes
\* included).
C1_CacheRoundTripAndExpiry ==
  [][\A op \in Ops :
       (pc = op /\ pc' # op /\ lastWrite[FixedKey[op]] # Null) =>
         LET w == lastWrite[FixedKey[op]]
         IN  /\ now - w.at < TTL =>
                  /\ ret'[op] = [from |-> "cache", value |-> w.payload]
                  /\ requests' = requests
             /\ now - w.at >= TTL =>
                  /\ ret'[op] = ret[op]
                  /\ pc' = ResponseStage[op]
                  /\ Len(requests') = Len(requests) + 1]_vars

\* A second page load has called fetchTeamStats exactly 20 minutes after
\* the write of the first one, and waits for the network.
C1_Witness ==
  /\ loads = 2
  /\ pc = "fetchTeamStats_response"
  /\ lastWrite["teamStats"] # Null
  /\ now - lastWrite["teamStats"].at = TTL
  /\ Len(requests) = 1

\* C2: malformed cached data is a cache miss.  When an operation is called
\* while the text under its key is not JSON, the call does not throw and
\* issues the network request.
C2_MalformedIsMiss ==
  [][\A op \in Ops :
       (pc = op /\ pc' # op /\ localStorage[FixedKey[op]] = Garbage) =>
         /\ ret'[op].from # "throw"
         /\ pc' = ResponseStage[op]
         /\ Len(requests') = Len(requests) + 1]_vars

\* C3: a cache hit has no side effects.  A call that returns from the cache
\* issues no request and leaves localStorage as it was; the payload it
\* returns is the one the last network fetch of the operation stored, and
\* less than 20 minutes have passed since that fetch stored it.
C3_HitHasNoSideEffects ==
  [][\A op \in Ops :
       (ret'[op] # ret[op] /\ ret'[op].from = "cache") =>
         /\ localStorage' = localStorage
         /\ requests' = requests
         /\ lastWrite' = lastWrite
         /\ lastWrite[FixedKey[op]] # Null
         /\ ret'[op].value = lastWrite[FixedKey[op]].payload
         /\ now - lastWrite[FixedKey[op]].at < TTL]_vars

\* A second page load got the weekly leaderboard from the cache one
\* millisecond before it expired, and the entry still has the timestamp of
\* the fetch.
C3_Witness ==
  /\ loads = 2
  /\ ret["getWeeklyLeaderBoardInfoStats"].from = "cache"
  /\ lastWrite["weeklyLeaderboardInfo"] # Null
  /\ now - lastWrite["weeklyLeaderboardInfo"].at = TTL - 1
  /\ Get(JSONParse(localStorage["weeklyLeaderboardInfo"]), "timestamp")
       = Num(lastWrite["weeklyLeaderboardInfo"].at)
  /\ \A i \in 1..Len(requests) : requests[i] # <<"api/v2/leaderboards", "weekly">>

\* C4: failed fetches never touch or use the cache.  A response with a
\* non-success status never reaches the decoding of its body; when the
\* request fails or the body cannot be decoded, the operation throws,
\* localStorage is left as it was, and nothing is returned from the cache.
C4_FailedFetchLeavesCache ==
  [][\A op \in Ops :
       /\ pc = ResponseStage[op] =>
            \/ /\ pc' = JsonStage[op] /\ response'.ok
               /\ ret'[op] = ret[op] /\ localStorage' = localStorage
            \/ /\ ret'[op] = [from |-> "throw"]
               /\ localStorage' = localStorage
            \/ UNCHANGED <<pc, localStorage, ret>>
       /\ pc = JsonStage[op] =>
            /\ response.ok
            /\ IsThrown(JSONParse(response.body)) =>
                 /\ ret'[op] = [from |-> "throw"]
                 /\ localStorage' = localStorage]_vars

\* An operation has thrown after its request, and the stale entry of an
\* earlier page load is still under its key.
C4_Witness ==
  \E op \in Ops :
    /\ ret[op] = [from |-> "throw"]
    /\ Len(requests) > 0
    /\ lastWrite[FixedKey[op]] # Null
    /\ now - lastWrite[FixedKey[op]].at >= TTL
    /\ localStorage[FixedKey[op]] # Null
    /\ Get(JSONParse(localStorage[FixedKey[op]]), PayloadProperty[op])
         = lastWrite[FixedKey[op]].payload

\* C5: write-through on success.  When an operation returns a payload from
\* the network, localStorage holds under the operation's fixed key an entry
\* with that payload and with the clock value of the write as timestamp,
\* and every other key is as it was.
C5_WriteThrough ==
  [][\A op \in Ops :
       (ret'[op] # ret[op] /\ ret'[op].from = "network") =>
         LET entry == JSONParse(localStorage'[FixedKey[op]])
         IN  /\ ~IsThrown(entry) /\ entry # Null
             /\ Get(entry, PayloadProperty[op]) = ret'[op].value
             /\ Get(entry, "timestamp") = Num(now)
             /\ \A k \in Keys \ {FixedKey[op]} :
                  localStorage'[k] = localStorage[k]]_vars

\* The weekly leaderboard was fetched and stored later than the other two
\* payloads, which are still under their keys.
C5_Witness ==
  /\ ret["getWeeklyLeaderBoardInfoStats"].from = "network"
  /\ localStorage["weeklyLeaderboardInfo"] # Null
  /\ Get(JSONParse(localStorage["weeklyLeaderboardInfo"]), "timestamp") = Num(now)
  /\ now > 0
  /\ localStorage["teamStats"] \notin {Null, Garbage}
  /\ localStorage["seasonLeaderboardInfo"] \notin {Null, Garbage}

\* C6: no retries.  A page load issues at most three requests, and never
\* two for the same data source.
C6_NoRetries ==
  /\ Len(requests) <= 3
  /\ \A i, j \in 1..Len(requests) : requests[i] = requests[j] => i = j

\* Three requests were issued, and the first of them failed.
C6_Witness ==
  /\ Len(requests) = 3
  /\ ret["fetchTeamStats"] = [from |-> "throw"]
  /\ ret["getSeasonLeaderBoardInfoStats"].from = "network"

\* The calculation has run to its end.
Calculated == pc \in {"waitForElm", "waiting", "resolved", "done"}

\* The races played of the leaderboard entry at a milestone's index, in the
\* scores the operation returned.
PlayedAt(op, i) == ret[op].value.arr[Milestones[i].index + 1].played.num

\* C7: weekly requirement.  For a weekly leaderboard of at least 100
\* entries and a positive member count, dailyMemberRaces of each of the five
\* milestones is the least integer d with d * 7 * memberCount >= racesPlayed
\* of the entry at the milestone's index.
C7_WeeklyRequirement ==
  (/\ Calculated
   /\ Len(ret["getWeeklyLeaderBoardInfoStats"].value.arr) >= 100
   /\ IsNum(memberCount) /\ memberCount.den = 1 /\ memberCount.num > 0) =>
    \A i \in 1..Len(Milestones) :
      LET d == weeklyTopInfo[Milestones[i].key].dailyMemberRaces
          played == PlayedAt("getWeeklyLeaderBoardInfoStats", i)
      IN  /\ IsNum(d) /\ d.den = 1
          /\ d.num * 7 * memberCount.num >= played
          /\ (d.num - 1) * 7 * memberCount.num < played

\* The first team played 700 races and the third 694, for 10 members: 10
\* daily races each, once exactly and once rounded up.
C7_Witness ==
  /\ Calculated
  /\ memberCount = Num(10)
  /\ PlayedAt("getWeeklyLeaderBoardInfoStats", 1) = 700
  /\ PlayedAt("getWeeklyLeaderBoardInfoStats", 2) = 694
  /\ weeklyTopInfo["top1"].dailyMemberRaces = Num(10)
  /\ weeklyTopInfo["top3"].dailyMemberRaces = Num(10)
  /\ weeklyTopInfo["top100"].dailyMemberRaces = Num(6)

\* C8: season requirement.  For a season leaderboard of at least 100
\* entries, a positive member count and a non-negative seasonRaces,
\* dailyMemberRaces of each of the five milestones is the least integer d
\* with d * memberCount >= racesPlayed - seasonRaces of the entry at the
\* milestone's index: no division by 7, and a negative quotient is rounded
\* toward zero.
C8_SeasonRequirement ==
  (/\ Calculated
   /\ Len(ret["getSeasonLeaderBoardInfoStats"].value.arr) >= 100
   /\ IsNum(memberCount) /\ memberCount.den = 1 /\ memberCount.num > 0
   /\ IsNum(seasonRaces) /\ seasonRaces.den = 1 /\ seasonRaces.num >= 0) =>
    \A i \in 1..Len(Milestones) :
      LET d == seasonTopInfo[Milestones[i].key].dailyMemberRaces
          gap == PlayedAt("getSeasonLeaderBoardInfoStats", i) - seasonRaces.num
      IN  /\ IsNum(d) /\ d.den = 1
          /\ d.num * memberCount.num >= gap
          /\ (d.num - 1) * memberCount.num < gap

\* 5000 races of the first team against 3000 of the own team, for 25
\* members: 80.
C8_Witness ==
  /\ Calculated
  /\ memberCount = Num(25) /\ seasonRaces = Num(3000)
  /\ PlayedAt("getSeasonLeaderBoardInfoStats", 1) = 5000
  /\ seasonTopInfo["top1"].dailyMemberRaces = Num(80)
  /\ seasonTopInfo["top100"].dailyMemberRaces = Num(1)

\* C9 as stated: whenever seasonRaces is greater than the races played at a
\* milestone, the season dailyMemberRaces of the milestone is strictly
\* negative.
C9_StrictlyNegative ==
  (/\ Calculated
   /\ IsNum(memberCount) /\ memberCount.num > 0 /\ IsNum(seasonRaces)) =>
    \A i \in 1..Len(Milestones) :
      seasonRaces.num > PlayedAt("getSeasonLeaderBoardInfoStats", i) =>
        seasonTopInfo[Milestones[i].key].dailyMemberRaces.num < 0

\* C9, amended: whenever seasonRaces is greater than the races played at a
\* milestone, the season dailyMemberRaces of the milestone is zero or
\* negative, and it is strictly negative exactly when seasonRaces exceeds
\* the races played by at least memberCount.
C9_NegativeOrZero ==
  (/\ Calculated
   /\ IsNum(memberCount) /\ memberCount.num > 0 /\ IsNum(seasonRaces)) =>
    \A i \in 1..Len(Milestones) :
      LET played == PlayedAt("getSeasonLeaderBoardInfoStats", i)
          d == seasonTopInfo[Milestones[i].key].dailyMemberRaces
      IN  seasonRaces.num > played =>
            /\ IsNum(d) /\ d.num <= 0
            /\ d.num < 0 <=> seasonRaces.num - played >= memberCount.num

\* The own team is 10 races ahead of the 50th team and 1010 ahead of the
\* 100th, for 25 members: 0 for the 50th, -40 for the 100th.
C9_Witness ==
  /\ Calculated
  /\ memberCount = Num(25) /\ seasonRaces = Num(4030)
  /\ PlayedAt("getSeasonLeaderBoardInfoStats", 4) = 4020
  /\ seasonTopInfo["top50"].dailyMemberRaces = Num(0)
  /\ seasonTopInfo["top100"].dailyMemberRaces = Num(-40)

\* C10: ownership guard.  When the team tag of the page address differs
\* from the team tag of the user in persist:nt, the script has issued no
\* request, connected no observer, inserted no widget, called no fetch
\* operation and logged nothing, and no step of it writes localStorage.
Foreign ==
  /\ pc # "start"
  /\ ~IsThrown(UserTeamTag(localStorage))
  /\ UserTeamTag(localStorage) # TeamPageTagOf(href)
C10_OwnershipGuard ==
  /\ [](Foreign =>
          /\ pc = "returned"
          /\ requests = <<>>
          /\ ~observer
          /\ widget = Undefined
          /\ console = <<>>
          /\ \A op \in Ops : ret[op] = NoRet)
  /\ [][Foreign => localStorage' = localStorage]_vars

\* The user of team TAGA is on the page of team TAGB, whose tables are
\* rendered; the script has returned.
C10_Witness ==
  /\ pc = "returned"
  /\ teamPageTag = Str(<<"TAGB">>)
  /\ UserTeamTag(localStorage) = Str(<<"TAGA">>)
  /\ document.container /\ document.leaderboard
  /\ loads = 2


(***************************************************************************)
(* The toggle of the inserted widget.                                      *)
(***************************************************************************)
\* The widget is in the page; a control carries the active style (link--i)
\* or the inactive one (link--h); the table body shows the rows of the
\* weekly or of the season requirements.
Inserted == widget # Undefined /\ document.widget
Active(classList) == "link--i" \in classList /\ "link--h" \notin classList
Inactive(classList) == "link--h" \in classList /\ "link--i" \notin classList
ShowsWeekly ==
  widget.body = createTopTeamRequirementsTableBody(weeklyTopInfo)
ShowsSeason ==
  widget.body = createTopTeamRequirementsTableBody(seasonTopInfo)
ClickStep == Len(clicks') = Len(clicks) + 1

\* C11: after the widget is inserted, whatever the clicks on the two
\* controls (clicks on the active control included), the control styled as
\* active is the control of the mode whose rows the table body shows.
C11_ToggleConsistency ==
  Inserted =>
    /\ Active(widget.weeklyButton) => ShowsWeekly
    /\ Active(widget.seasonButton) => ShowsSeason

\* C12: from the freshly inserted widget, a click on Season followed by a
\* click on Weekly gives back the original rendering: the weekly rows, the
\* original footnote and the original styles of both controls.
C12_ToggleRoundTrip ==
  (Inserted /\ clicks = <<"Season", "Weekly">>) =>
    /\ widget.body = createTopTeamRequirementsTableBody(weeklyTopInfo)
    /\ widget.footer = [members |-> memberCount]
    /\ widget.weeklyButton = {"link", "link--s", "link--i"}
    /\ widget.seasonButton = {"link", "link--s", "link--h"}
    /\ widget = createTopTeamRequirementsWidget(weeklyTopInfo)

C12_Witness ==
  /\ Inserted /\ clicks = <<"Season", "Weekly">>
  /\ ShowsWeekly /\ ~ShowsSeason
  /\ IsNum(memberCount)

\* C13: a click issues no request, writes no cache key and leaves the two
\* requirement collections computed at startup as they are; it changes
\* only the widget (styles, table body, footnote).
C13_RendererNeverRefetches ==
  [][ClickStep =>
       /\ Inserted /\ Inserted'
       /\ UNCHANGED <<requests, localStorage, lastWrite, ret, response>>
       /\ UNCHANGED <<weeklyTopInfo, seasonTopInfo, weeklyLeaderBoardInfo,
                      seasonLeaderBoardInfo, memberCount, seasonRaces>>
       /\ UNCHANGED <<now, ticks, loads, href, document, observer, pc,
                      teamPageTag, console>>]_vars

C13_Witness ==
  /\ Inserted /\ clicks = <<"Weekly", "Season">>
  /\ Len(requests) = 3
  /\ ShowsSeason

\* C18: after the widget is inserted, whatever the clicks, the footnote
\* states the member count alone exactly when the table body shows the
\* weekly rows, and the member count with the season race count exactly
\* when it shows the season rows.
C18_FootnoteFollowsBody ==
  Inserted =>
    /\ widget.footer = [members |-> memberCount] <=> ShowsWeekly
    /\ widget.footer = [members |-> memberCount, seasonRaces |-> seasonRaces]
         <=> ShowsSeason

C18_Witness ==
  /\ Inserted /\ clicks = <<"Season">>
  /\ ShowsSeason /\ ~ShowsWeekly
  /\ widget.footer = [members |-> memberCount, seasonRaces |-> seasonRaces]
  /\ IsNum(seasonRaces)

\* C19: after the widget is built, whatever the clicks, exactly one of the
\* two controls carries the active style and the other the inactive one;
\* before any click the Weekly control is the active one.
C19_MutualExclusion ==
  Inserted =>
    /\ \/ Active(widget.weeklyButton) /\ Inactive(widget.seasonButton)
       \/ Inactive(widget.weeklyButton) /\ Active(widget.seasonButton)
    /\ clicks = <<>> => Active(widget.weeklyButton)

C19_Witness ==
  /\ Inserted /\ clicks = <<"Season", "Season">>
  /\ Active(widget.weeklyButton) /\ Inactive(widget.seasonButton)

(***************************************************************************)
(* Failures of the retrievals and short leaderboards.                      *)
(***************************************************************************)
Failed(op) == ret[op].from = "throw"
Attempted(op) == ret[op].from # "none"

\* C14: in a page load that passes the ownership check, when one of the
\* three retrievals has failed, no widget is inserted.
C14_MissingSourceAborts ==
  (\E op \in Ops : Failed(op)) => widget = Undefined

\* C15: in a page load that passes the ownership check, each of the three
\* retrievals is attempted whatever the outcome of the other two: when the
\* script comes to the calculation, all three have been attempted.
C15_IndependentRetrievals ==
  pc = "calculate" => \A op \in Ops : Attempted(op)

\* C17: with a leaderboard of fewer than 100 entries the calculation does
\* not fail; a milestone whose index is out of range gets an absent
\* requirement and a milestone in range the usual played, points and
\* dailyMemberRaces.
ScoresOf(op) == ret[op].value.arr
C17_ShortLeaderboards ==
  (/\ pc # "calculate"
   /\ \/ Len(ScoresOf("getWeeklyLeaderBoardInfoStats")) < 100
      \/ Len(ScoresOf("getSeasonLeaderBoardInfoStats")) < 100) =>
    /\ pc # "crashed"
    /\ \A k \in MilestoneKeys :
         /\ IF IndexOf(k) < Len(ScoresOf("getWeeklyLeaderBoardInfoStats"))
            THEN DOMAIN weeklyTopInfo[k] =
                   {"played", "points", "dailyMemberRaces"}
            ELSE weeklyTopInfo[k] = Undefined
         /\ IF IndexOf(k) < Len(ScoresOf("getSeasonLeaderBoardInfoStats"))
            THEN DOMAIN seasonTopInfo[k] =
                   {"played", "points", "dailyMemberRaces"}
            ELSE seasonTopInfo[k] = Undefined

(***************************************************************************)
(* The wait for the page anchors.                                          *)
(***************************************************************************)
Diagnostic ==
  \E i \in 1..Len(console) :
    console[i] = "Could not find the container div or leaderboard table div."

\* C16: in a page load whose data was retrieved and calculated, when the
\* leaderboard table is absent as the continuation looks for it once the
\* container is found, no widget is inserted and the diagnostic is logged;
\* and as long as no container was found no widget is in the page and,
\* unless the container appears, the diagnostic is eventually logged.
DataRetrieved == \A op \in Ops : ret[op].from \in {"cache", "network"}
C16_AbsentAnchorsReported ==
  /\ [][(DataRetrieved /\ pc = "resolved" /\ pc' # "resolved"
           /\ ~document.leaderboard)
          => (widget' = Undefined /\ ~Inserted' /\ Diagnostic')]_vars
  /\ []((DataRetrieved /\ tablesContainerDiv = Undefined) => ~Inserted)
  /\ (DataRetrieved /\ pc = "waiting" /\ ~document.container)
       ~> (document.container \/ Diagnostic)

\* C20: waitForElm resolves only when an element matching the selector is
\* in the document, with that element, and once DOM changes have left such
\* an element in the document, it eventually resolves (unless the element
\* goes away again).
C20_WaitCompletes ==
  /\ [][(pc \in {"waitForElm", "waiting"} /\ pc' = "resolved")
          => (/\ document.container /\ document'.container
              /\ tablesContainerDiv' = [connected |-> TRUE])]_vars
  /\ (pc = "waiting" /\ document.container)
       ~> (pc # "waiting" \/ ~document.container)

(***************************************************************************)
(* The team whose stats are returned.                                      *)
(***************************************************************************)
\* C21: whatever the team tags of the successive calls, the payload that
\* fetchTeamStats(tag) returns, from the cache or from the network, was
\* fetched from the network for that same tag.
C21_StatsOfRequestedTeam ==
  ret["fetchTeamStats"].from \in {"cache", "network"} =>
    /\ lastWrite[teamStatsKey] # Null
    /\ ret["fetchTeamStats"].value = lastWrite[teamStatsKey].payload
    /\ lastWrite[teamStatsKey].tag = teamPageTag
====
